---- MODULE Spec2Model ----
(***************************************************************************)
(* A model of utils/downloader.py: download_files, its request            *)
(* normalisation, the semaphore gate, the streaming transfer _download,    *)
(* the per-item boundary _download_file and the aggregation of results.    *)
(*                                                                         *)
(* Strings are sequences of one-character strings, so that str.strip,      *)
(* Path(...).name and os.path.join are computed, not assumed.              *)
(***************************************************************************)
EXTENDS Integers, Sequences, FiniteSets, TLC

\* ------------------------------------------------------------------ bounds
MaxReqs == 2
MaxWorkers == 2
MaxBytes == 1
MaxCalls == 2

\* iter_chunked(512): the largest chunk the body iterator hands out
ChunkSize == 512

\* ----------------------------------------------------------------- strings
Min(a, b) == IF a < b THEN a ELSE b
Max(a, b) == IF a > b THEN a ELSE b

IsSpace(c) == c = " "

RECURSIVE lstrip(_)
lstrip(s) ==
    IF s = <<>> THEN <<>>
    ELSE IF IsSpace(Head(s)) THEN lstrip(Tail(s)) ELSE s

RECURSIVE rstrip(_)
rstrip(s) ==
    IF s = <<>> THEN <<>>
    ELSE IF IsSpace(s[Len(s)]) THEN rstrip(SubSeq(s, 1, Len(s) - 1)) ELSE s

\* str.strip(): leading and trailing whitespace removed
strip(s) == rstrip(lstrip(s))

RECURSIVE DropTrailingSlashes(_)
DropTrailingSlashes(s) ==
    IF s = <<>> THEN <<>>
    ELSE IF s[Len(s)] = "/" THEN DropTrailingSlashes(SubSeq(s, 1, Len(s) - 1)) ELSE s

RECURSIVE LastSegment(_)
LastSegment(s) ==
    IF s = <<>> THEN <<>>
    ELSE IF s[Len(s)] = "/" THEN <<>>
    ELSE Append(LastSegment(SubSeq(s, 1, Len(s) - 1)), s[Len(s)])

\* get_basename(p) = Path(p).name: the final path component, "" if there is none
get_basename(p) == LastSegment(DropTrailingSlashes(p))

\* os.path.join(a, b) on POSIX
os_path_join(a, b) ==
    IF b # <<>> /\ Head(b) = "/" THEN b
    ELSE IF a = <<>> \/ a[Len(a)] = "/" THEN a \o b
    ELSE a \o <<"/">> \o b

\* the directory part of a path: everything before the last "/"
RECURSIVE ParentOf(_)
ParentOf(p) ==
    IF p = <<>> THEN <<>>
    ELSE IF p[Len(p)] = "/" THEN DropTrailingSlashes(p)
    ELSE ParentOf(SubSeq(p, 1, Len(p) - 1))

\* ------------------------------------------------------------- file system
\* dirs: the directories that exist; files: path -> content, a sequence of
\* bytes, each byte tagged with where it came from.
PathExists(dirs_, files_, p) ==
    \/ p \in DOMAIN files_
    \/ DropTrailingSlashes(p) \in dirs_

\* every proper ancestor directory of p, and p itself
Ancestors(p) ==
    { SubSeq(p, 1, i) : i \in { j \in 1..Len(p) : j = Len(p) \/ p[j + 1] = "/" } }
        \ { <<>> }

\* q is p or lies below p
Under(p, q) ==
    /\ Len(q) >= Len(p)
    /\ SubSeq(q, 1, Len(p)) = p
    /\ (Len(q) = Len(p) \/ q[Len(p) + 1] = "/")

\* Path(p).mkdir(parents, exist_ok): the exception it raises, "none" when it
\* raises nothing, and the directories afterwards. The empty path is the
\* working directory, which exists.
mkdir(dirs_, files_, tgt_dir, parents, exist_ok) ==
    LET p == DropTrailingSlashes(tgt_dir)
        above == Ancestors(p) \ {p}
    IN  IF p = <<>> \/ p \in dirs_
        THEN [exc |-> IF exist_ok THEN "none" ELSE "FileExistsError", dirs |-> dirs_]
        ELSE IF p \in DOMAIN files_
        THEN [exc |-> "FileExistsError", dirs |-> dirs_]
        ELSE IF above \cap DOMAIN files_ # {}
        THEN [exc |-> "NotADirectoryError", dirs |-> dirs_]
        ELSE IF ~parents /\ ~(above \subseteq dirs_)
        THEN [exc |-> "FileNotFoundError", dirs |-> dirs_]
        ELSE [exc |-> "none", dirs |-> dirs_ \cup Ancestors(p)]

\* remove_dir(tgt_dir, only_empty): os.rmdir or shutil.rmtree of a directory
\* that exists; NotADirectoryError for a file, OSError from os.rmdir for a
\* directory that is not empty.
remove_dir(dirs_, files_, tgt_dir, only_empty) ==
    LET p == DropTrailingSlashes(tgt_dir)
        below == { q \in dirs_ \cup DOMAIN files_ : Under(p, q) }
        same == [raises |-> FALSE, ok |-> FALSE, dirs |-> dirs_, files |-> files_]
    IN  IF ~PathExists(dirs_, files_, tgt_dir) THEN same
        ELSE IF p \notin dirs_ THEN [same EXCEPT !.raises = TRUE]
        ELSE IF only_empty /\ below # {p} THEN [same EXCEPT !.raises = TRUE]
        ELSE [raises |-> FALSE, ok |-> TRUE,
              dirs |-> dirs_ \ below,
              files |-> [q \in DOMAIN files_ \ below |-> files_[q]]]

\* create_dir(tgt_dir, remove_existing, build_tree, exist_ok): remove_dir
\* first when asked, then mkdir inside a bare try/except; ok is the boolean
\* it returns, raises is set when remove_dir's exception escapes.
create_dir_kw(dirs_, files_, tgt_dir, remove_existing, build_tree, exist_ok) ==
    LET rm == IF remove_existing THEN remove_dir(dirs_, files_, tgt_dir, FALSE)
              ELSE [raises |-> FALSE, ok |-> FALSE, dirs |-> dirs_, files |-> files_]
        mk == mkdir(rm.dirs, rm.files, tgt_dir, build_tree, exist_ok)
    IN  IF rm.raises
        THEN [raises |-> TRUE, ok |-> FALSE, dirs |-> dirs_, files |-> files_]
        ELSE [raises |-> FALSE, ok |-> mk.exc = "none", dirs |-> mk.dirs, files |-> rm.files]

\* a variant of create_dir whose remove_existing defaults to True
create_dir_RemovesExisting(dirs_, files_, tgt_dir) ==
    create_dir_kw(dirs_, files_, tgt_dir, TRUE, TRUE, FALSE)

\* create_dir(tgt_dir) with its defaults: remove_existing=False,
\* build_tree=True, exist_ok=False
create_dir(dirs_, files_, tgt_dir) ==
    create_dir_kw(dirs_, files_, tgt_dir, FALSE, TRUE, FALSE)

\* open(file_path, mode="wb") succeeds when the parent directory exists and
\* the path is not a directory
CanOpenForWrite(dirs_, p) ==
    /\ p # <<>>
    /\ p[Len(p)] # "/"
    /\ p \notin dirs_
    /\ ParentOf(p) \in dirs_

\* f.write(chunk) of k bytes from source u at the handle's offset
WriteAt(content, offset, k, u) ==
    [i \in 1..Max(Len(content), offset + k) |->
        IF i > offset /\ i <= offset + k THEN u
        ELSE IF i <= Len(content) THEN content[i] ELSE "nul"]

\* ------------------------------------------------------------------ inputs
\* A request is a bare URL (a str) or an Array (url,) / (url, filename).
BareUrl(u) == [bare |-> TRUE, args |-> <<u>>]
Pair(u, f) == [bare |-> FALSE, args |-> <<u, f>>]

Requests ==
    { BareUrl(<<"a">>),              \* -> ("a", "d/a")
      BareUrl(<<" ", "a">>),         \* the same URL once trimmed
      BareUrl(<<"x", "/", "a">>),    \* another URL with the same basename
      Pair(<<"a">>, <<" ", "b">>),   \* an explicit file name, to be trimmed
      Pair(<<"a">>, <<" ">>),        \* an explicit file name that trims to ""
      BareUrl(<<" ">>) }             \* a URL that trims to ""

SeqsUpTo(S, n) == UNION { [1..k -> S] : k \in 0..n }

\* urls: an Array, that is a list or a tuple, of requests
UrlsInputs ==
    { [kind |-> "list", items |-> q] : q \in SeqsUpTo(Requests, MaxReqs) }
        \cup { [kind |-> "tuple", items |-> q] : q \in SeqsUpTo(Requests, 1) }

DirInputs == { <<"d">>, <<" ">>, <<>> }

Inputs ==
    [urls : UrlsInputs, download_dir : DirInputs,
     replace_existing : BOOLEAN, max_workers : (-1)..MaxWorkers]

NoInput ==
    [urls |-> [kind |-> "list", items |-> <<>>], download_dir |-> <<>>,
     replace_existing |-> TRUE, max_workers |-> 0]

\* the file systems a process may start in
OldContent == <<"old">>
InitialFileSystems ==
    { [dirs |-> {}, files |-> <<>>],
      [dirs |-> {<<"d">>}, files |-> (<<"d", "/", "a">> :> OldContent)] }

\* ------------------------------------------------------------------ values
IntValue(n) == [type |-> "int", n |-> n, msg |-> <<>>]
ExcValue(t, m) == [type |-> t, n |-> 0, msg |-> m]
NoValue == [type |-> "NoneType", n |-> 0, msg |-> <<>>]

\* the classes `except Exception` catches that a transfer can raise
ExceptionTypes == { "AssertionError", "ClientError", "OSError" }

\* f"Could not access {url}"
CouldNotAccess(url) == <<"Could not access ">> \o url

\* ------------------------------------------------------------------- state
VARIABLES
    dirs, files,        \* the file system
    loop_closed,        \* the thread's event loop has been closed
    calls,              \* invocations of download_files so far
    phase,              \* "idle", "running", "returned", "raised"
    args,               \* the arguments of the current invocation
    error,              \* the exception class download_files raised, or "none"
    fs0,                \* the file system when the invocation began
    work,               \* list(OrderedSet(_urls)): the (url, file_path) pairs
    bar_total, bar_n,   \* all_bar: its total and the ticks received
    sem,                \* the semaphore's counter
    pc,                 \* per transfer: "wait", "get", "stream", then "ok" (it
                        \* returned), "caught" or "raised" (its exception escaped)
    status,             \* per transfer: the response's status, 0 while there is none
    size,               \* per transfer: int(Content-Length or 0)
    written,            \* per transfer: the bytes written to its file handle
    result,             \* per transfer: the last element of its 3-tuple
    gets,               \* per transfer: session.get calls issued
    opened,             \* the paths opened for writing in this invocation
    first_done,         \* the transfer that finished first, 0 if none has
    results,            \* the dictionary download_files returned
    pf,                 \* the last call of a utility function: its name,
                        \* its arguments and what it gave back
    messages,           \* a Messages instance: its list of messages
    llm                 \* an Llm instance: its fields, and where its
                        \* __call__ stands

vars ==
    <<dirs, files, loop_closed, calls, phase, args, error, fs0, work, bar_total,
      bar_n, sem, pc, status, size, written, result, gets, opened, first_done, results,
      pf, messages, llm>>

Tasks == 1..Len(work)

NoResults == [succeeded |-> <<>>, failed |-> <<>>]

\* no utility function has been called
NoCall == [fn |-> "none"]

\* no Llm has been made
NoLlm == [pc |-> "none"]

LlmUnused ==
    /\ messages = <<>>
    /\ llm = NoLlm

LlmFrame == UNCHANGED <<messages, llm>>

\* no invocation of download_files has begun
Quiescent ==
    /\ loop_closed = FALSE
    /\ calls = 0
    /\ phase = "idle"
    /\ args = NoInput
    /\ error = "none"
    /\ work = <<>>
    /\ bar_total = 0
    /\ bar_n = 0
    /\ sem = 0
    /\ pc = <<>>
    /\ status = <<>>
    /\ size = <<>>
    /\ written = <<>>
    /\ result = <<>>
    /\ gets = <<>>
    /\ opened = {}
    /\ first_done = 0
    /\ results = NoResults

Init ==
    /\ \E fs \in InitialFileSystems :
        /\ dirs = fs.dirs
        /\ files = fs.files
        /\ fs0 = fs
    /\ Quiescent
    /\ LlmUnused
    /\ pf = NoCall

\* ----------------------------------------------------------- normalisation
\* a variant of _process_url: the assert looks at the URL before it is trimmed
_process_url_AssertsUntrimmed(a) ==
    LET url == strip(a[1])
        has_name == Len(a) >= 2
        filename == IF has_name THEN strip(a[2]) ELSE <<>>
    IN  [raises |-> a[1] = <<>>,
         url |-> url,
         filename |-> IF has_name /\ filename # <<>> THEN filename
                      ELSE get_basename(url)]

\* _process_url(url, filename=None): the error flag stands for the failed
\* assert; `filename or get_basename(url)` falls back on "" as on None.
_process_url(a) ==
    LET url == strip(a[1])
        has_name == Len(a) >= 2
        filename == IF has_name THEN strip(a[2]) ELSE <<>>
    IN  [raises |-> url = <<>>,
         url |-> url,
         filename |-> IF has_name /\ filename # <<>> THEN filename
                      ELSE get_basename(url)]

\* a variant of KeepsRequest: the existence test without its `not`
KeepsRequestNotDropped(replace_existing, dirs_, files_, file_path) ==
    replace_existing \/ PathExists(dirs_, files_, file_path)

\* replace_existing or not os.path.exists(file_path)
KeepsRequest(replace_existing, dirs_, files_, file_path) ==
    replace_existing \/ ~PathExists(dirs_, files_, file_path)

\* The loop that builds _urls; it stops at the first request whose URL is empty.
RECURSIVE BuildUrls(_, _, _, _, _, _)
BuildUrls(items, download_dir, replace_existing, dirs_, files_, acc) ==
    IF items = <<>> THEN [raises |-> FALSE, urls |-> acc]
    ELSE LET p == _process_url(Head(items).args)
             file_path == os_path_join(download_dir, p.filename)
         IN  IF p.raises THEN [raises |-> TRUE, urls |-> acc]
             ELSE BuildUrls(Tail(items), download_dir, replace_existing, dirs_, files_,
                            IF KeepsRequest(replace_existing, dirs_, files_, file_path)
                            THEN Append(acc, <<p.url, file_path>>)
                            ELSE acc)

Contains(q, x) == \E i \in 1..Len(q) : q[i] = x

\* a variant of OrderedSetList: list(_urls), duplicates kept
OrderedSetListKeepsAll(q) == q

\* list(OrderedSet(_urls)): duplicates dropped, first occurrences kept in order
RECURSIVE OrderedSetList(_)
OrderedSetList(q) ==
    IF q = <<>> THEN <<>>
    ELSE LET init == OrderedSetList(SubSeq(q, 1, Len(q) - 1))
             x == q[Len(q)]
         IN  IF Contains(init, x) THEN init ELSE Append(init, x)

\* `urls != []`: a tuple never equals a list
UrlsNotEmptyList(urls) == ~(urls.kind = "list" /\ urls.items = <<>>)

\* a variant of ArgsAccepted: only the first assert
ArgsAcceptedUrlsOnly(urls, download_dir, max_workers) == UrlsNotEmptyList(urls)

\* the three asserts at the top of download_files, in order
ArgsAccepted(urls, download_dir, max_workers) ==
    /\ UrlsNotEmptyList(urls)
    /\ download_dir # <<>>
    /\ max_workers > 0

\* a variant of NewSemaphore: one slot too few
NewSemaphoreOneLess(max_workers) == max_workers - 1

\* a variant of NewSemaphore: one slot too many
NewSemaphoreOffByOne(max_workers) == max_workers + 1

\* asyncio.BoundedSemaphore(max_workers)
NewSemaphore(max_workers) == max_workers

Fill(n, v) == [i \in 1..n |-> v]

\* ------------------------------------------------------------- the actions
BatchFrame ==
    UNCHANGED <<work, bar_total, bar_n, sem, pc, status, size, written, result, gets, first_done>>

\* download_files raises before the event loop runs anything
RaiseEarly(inp, exc, dirs_) ==
    /\ phase' = "raised"
    /\ error' = exc
    /\ dirs' = dirs_
    /\ work' = <<>>
    /\ bar_total' = 0
    /\ sem' = 0
    /\ pc' = <<>>
    /\ status' = <<>>
    /\ size' = <<>>
    /\ written' = <<>>
    /\ result' = <<>>
    /\ gets' = <<>>
    /\ UNCHANGED loop_closed

\* download_files from its first line to loop.run_until_complete: one
\* synchronous stretch of code.
Call(inp) ==
    /\ UNCHANGED <<pf, messages, llm>>
    /\ phase = "idle"
    /\ calls < MaxCalls
    /\ calls' = calls + 1
    /\ args' = inp
    /\ fs0' = [dirs |-> dirs, files |-> files]
    /\ bar_n' = 0
    /\ opened' = {}
    /\ first_done' = 0
    /\ results' = NoResults
    /\ UNCHANGED files
    /\ LET download_dir == strip(inp.download_dir)
       IN  IF ~ArgsAccepted(inp.urls, download_dir, inp.max_workers)
           THEN RaiseEarly(inp, "AssertionError", dirs)
           ELSE LET made == create_dir(dirs, files, download_dir)
                    built == BuildUrls(inp.urls.items, download_dir,
                                       inp.replace_existing, made.dirs, files, <<>>)
                    todo == OrderedSetList(built.urls)
                IN  IF built.raises THEN RaiseEarly(inp, "AssertionError", made.dirs)
                    ELSE IF loop_closed THEN RaiseEarly(inp, "RuntimeError", made.dirs)
                    ELSE /\ phase' = "running"
                         /\ error' = "none"
                         /\ dirs' = made.dirs
                         /\ work' = todo
                         /\ bar_total' = Len(built.urls)
                         /\ sem' = NewSemaphore(inp.max_workers)
                         /\ pc' = Fill(Len(todo), "wait")
                         /\ status' = Fill(Len(todo), 0)
                         /\ size' = Fill(Len(todo), 0)
                         /\ written' = Fill(Len(todo), 0)
                         /\ result' = Fill(Len(todo), NoValue)
                         /\ gets' = Fill(Len(todo), 0)
                         /\ UNCHANGED loop_closed

\* `async with sem`: a slot is taken when the counter is positive
Acquire(t) ==
    /\ UNCHANGED <<pf, messages, llm>>
    /\ phase = "running"
    /\ pc[t] = "wait"
    /\ sem > 0
    /\ sem' = sem - 1
    /\ pc' = [pc EXCEPT ![t] = "get"]
    /\ UNCHANGED <<dirs, files, loop_closed, calls, phase, args, error, fs0, work,
                   bar_total, bar_n, status, size, written, result, gets, opened,
                   first_done, results>>

\* a variant of except_Exception: `except AssertionError as e`
except_AssertionError(e) == e.type = "AssertionError"

\* `except Exception as e`
except_Exception(e) == e.type \in ExceptionTypes

\* a variant of Released: the slot is given back only when _download returned
ReleasedOnlyOnReturn(value, raised) == IF raised THEN value ELSE value + 1

\* a variant of Released: sem.acquire() without a release
ReleasedNever(value, raised) == value

\* leaving `async with sem`: __aexit__ releases on a return and on an exception
Released(value, raised) == value + 1

\* a variant of Ticked: all_bar.update() after the try, not in `finally`
TickedOnlyOnReturn(n, raised) == IF raised THEN n ELSE n + 1

\* `finally: all_bar.update()`
Ticked(n, raised) == n + 1

\* a variant of AfterCatch: a broken connection sends the transfer back to the gate
AfterCatchRetries(e) == IF e.type = "ClientError" THEN "wait" ELSE "caught"

\* `return url, file_path, e`: a caught exception ends the transfer
AfterCatch(e) == "caught"

\* The way out of _download_file: the slot is released by `async with`, the
\* value is returned or the exception is caught, and `finally` ticks all_bar.
Leave(t, v, raised) ==
    /\ sem' = Released(sem, raised)
    /\ bar_n' = Ticked(bar_n, raised)
    /\ first_done' = IF first_done = 0 THEN t ELSE first_done
    /\ size' = [size EXCEPT ![t] = IF raised THEN 0 ELSE @]
    /\ written' = [written EXCEPT ![t] = IF raised THEN 0 ELSE @]
    /\ result' = [result EXCEPT ![t] = v]
    /\ pc' = [pc EXCEPT ![t] = IF ~raised THEN "ok"
                                ELSE IF except_Exception(v) THEN AfterCatch(v)
                                ELSE "raised"]

\* what session.get(url) can do: fail, or answer with a status and headers
NoHeader == [present |-> FALSE, value |-> 0]
Header(n) == [present |-> TRUE, value |-> n]
Responses ==
    { [kind |-> "error", status |-> 0, content_length |-> NoHeader],
      [kind |-> "response", status |-> 404, content_length |-> NoHeader],
      [kind |-> "response", status |-> 201, content_length |-> NoHeader] }
        \cup { [kind |-> "response", status |-> 200, content_length |-> h] :
                 h \in {NoHeader} \cup { Header(n) : n \in 0..MaxBytes } }

\* a variant of StatusAccepted: the status is not looked at
StatusAcceptedAny(code) == TRUE

\* a variant of StatusAccepted: any 2xx status passes
StatusAccepted2xx(code) == code \in 200..299

\* assert response.status == 200
StatusAccepted(code) == code = 200

\* int(response.headers.get("Content-Length", 0))
DeclaredSize(r) == IF r.content_length.present THEN r.content_length.value ELSE 0

\* _download up to the first chunk: the request, the status assert, the
\* declared size and open(file_path, "wb"), which truncates or creates.
Get(t, r, io_ok) ==
    /\ UNCHANGED <<pf, messages, llm>>
    /\ phase = "running"
    /\ pc[t] = "get"
    /\ gets' = [gets EXCEPT ![t] = @ + 1]
    /\ status' = [status EXCEPT ![t] = r.status]
    /\ UNCHANGED <<dirs, loop_closed, calls, phase, args, error, fs0, work,
                   bar_total, results>>
    /\ LET url == work[t][1]
           file_path == work[t][2]
       IN  IF r.kind = "error"
           THEN /\ Leave(t, ExcValue("ClientError", <<>>), TRUE)
                /\ UNCHANGED <<files, opened>>
           ELSE IF ~StatusAccepted(r.status)
           THEN /\ Leave(t, ExcValue("AssertionError", CouldNotAccess(url)), TRUE)
                /\ UNCHANGED <<files, opened>>
           ELSE IF ~(io_ok /\ CanOpenForWrite(dirs, file_path))
           THEN /\ Leave(t, ExcValue("OSError", <<>>), TRUE)
                /\ UNCHANGED <<files, opened>>
           ELSE /\ pc' = [pc EXCEPT ![t] = "stream"]
                /\ size' = [size EXCEPT ![t] = DeclaredSize(r)]
                /\ files' = [p \in DOMAIN files \cup {file_path} |->
                                IF p = file_path THEN <<>> ELSE files[p]]
                /\ opened' = opened \cup {file_path}
                /\ UNCHANGED <<bar_n, sem, written, result, first_done>>

\* one turn of `async for chunk in response.content.iter_chunked(512)`
Chunk(t, k) ==
    /\ UNCHANGED <<pf, messages, llm>>
    /\ phase = "running"
    /\ pc[t] = "stream"
    /\ k >= 1
    /\ k <= Min(ChunkSize, MaxBytes - written[t])
    /\ files' = [files EXCEPT ![work[t][2]] = WriteAt(@, written[t], k, work[t][1])]
    /\ written' = [written EXCEPT ![t] = @ + k]
    /\ UNCHANGED <<dirs, loop_closed, calls, phase, args, error, fs0, work, bar_total,
                   bar_n, sem, pc, status, size, result, gets, opened, first_done,
                   results>>

\* the connection breaks while the body is read, or f.write fails
StreamFails(t, exc) ==
    /\ UNCHANGED <<pf, messages, llm>>
    /\ phase = "running"
    /\ pc[t] = "stream"
    /\ Leave(t, ExcValue(exc, <<>>), TRUE)
    /\ UNCHANGED <<dirs, files, loop_closed, calls, phase, args, error, fs0, work,
                   bar_total, status, gets, opened, results>>

\* the body ends: `return size`
Finish(t) ==
    /\ UNCHANGED <<pf, messages, llm>>
    /\ phase = "running"
    /\ pc[t] = "stream"
    /\ Leave(t, IntValue(size[t]), FALSE)
    /\ UNCHANGED <<dirs, files, loop_closed, calls, phase, args, error, fs0, work,
                   bar_total, status, gets, opened, results>>

\* a variant of IsInt: whatever a transfer returned counts as a size
IsIntAnything(v) == v.type # "NoneType"

\* isinstance(result[-1], int)
IsInt(v) == v.type = "int"

\* the 3-tuple a transfer returns
Outcome(t) == <<work[t][1], work[t][2], result[t]>>

\* a variant of Aggregate: each result is put at the front of its list
RECURSIVE AggregateAtFront(_, _)
AggregateAtFront(outcomes, acc) ==
    IF outcomes = <<>> THEN acc
    ELSE LET o == Head(outcomes)
         IN  AggregateAtFront(Tail(outcomes),
                              IF IsInt(o[3])
                              THEN [acc EXCEPT !.succeeded = <<o>> \o @]
                              ELSE [acc EXCEPT !.failed = <<o>> \o @])

\* the loop over `await asyncio.gather(*tasks)`: results come in task order
RECURSIVE Aggregate(_, _)
Aggregate(outcomes, acc) ==
    IF outcomes = <<>> THEN acc
    ELSE LET o == Head(outcomes)
         IN  Aggregate(Tail(outcomes),
                       IF IsInt(o[3])
                       THEN [acc EXCEPT !.succeeded = Append(@, o)]
                       ELSE [acc EXCEPT !.failed = Append(@, o)])

\* gather is over (every task returned, or one raised), the dictionary is
\* built, and `finally` closes the event loop.
Complete ==
    /\ UNCHANGED <<pf, messages, llm>>
    /\ phase = "running"
    /\ \/ \A t \in Tasks : pc[t] \in {"ok", "caught"}
       \/ \E t \in Tasks : pc[t] = "raised"
    /\ loop_closed' = TRUE
    /\ IF \E t \in Tasks : pc[t] = "raised"
       THEN /\ phase' = "raised"
            /\ error' = result[CHOOSE t \in Tasks : pc[t] = "raised"].type
            /\ results' = NoResults
       ELSE /\ phase' = "returned"
            /\ error' = "none"
            /\ results' = Aggregate([t \in Tasks |-> Outcome(t)], NoResults)
    /\ UNCHANGED <<dirs, files, calls, args, fs0, opened>>
    /\ BatchFrame

\* The caller has its dictionary, or its exception, and goes on: nothing of
\* the invocation outlives it but the file system and the event loop.
CallerGoesOn ==
    /\ UNCHANGED <<pf, messages, llm>>
    /\ phase \in {"returned", "raised"}
    /\ phase' = "idle"
    /\ args' = NoInput
    /\ error' = "none"
    /\ fs0' = [dirs |-> dirs, files |-> files]
    /\ work' = <<>>
    /\ bar_total' = 0
    /\ bar_n' = 0
    /\ sem' = 0
    /\ pc' = <<>>
    /\ status' = <<>>
    /\ size' = <<>>
    /\ written' = <<>>
    /\ result' = <<>>
    /\ gets' = <<>>
    /\ opened' = {}
    /\ first_done' = 0
    /\ results' = NoResults
    /\ UNCHANGED <<dirs, files, loop_closed, calls>>

Next ==
    \/ \E inp \in Inputs : Call(inp)
    \/ CallerGoesOn
    \/ \E t \in Tasks : Acquire(t)
    \/ \E t \in Tasks, r \in Responses, io_ok \in BOOLEAN : Get(t, r, io_ok)
    \/ \E t \in Tasks, k \in 1..MaxBytes : Chunk(t, k)
    \/ \E t \in Tasks, exc \in {"ClientError", "OSError"} : StreamFails(t, exc)
    \/ \E t \in Tasks : Finish(t)
    \/ Complete

Spec == Init /\ [][Next]_vars

\* The event loop runs every task that is ready: a transfer that can take a
\* slot takes it and gather's result is consumed. The network answers every
\* request and every body ends.
Fairness ==
    /\ WF_vars(\E t \in Tasks : Acquire(t))
    /\ WF_vars(\E t \in Tasks, r \in Responses, io_ok \in BOOLEAN : Get(t, r, io_ok))
    /\ WF_vars(\E t \in Tasks : Finish(t))
    /\ WF_vars(Complete)

SpecFair == Spec /\ Fairness

\* =================================================================== claims
InFlight == { t \in Tasks : pc[t] \in {"get", "stream"} }
Finished == { t \in Tasks : pc[t] \in {"ok", "caught"} }

\* the position of a (url, file_path) pair in the work list, 0 if it is not there
WorkIndex(pair) ==
    IF Contains(work, pair) THEN CHOOSE i \in 1..Len(work) : work[i] = pair ELSE 0

PairOf(o) == <<o[1], o[2]>>

\* the entries of a returned list follow the order of the work list
InWorkOrder(list) ==
    \A i, j \in 1..Len(list) :
        i < j => WorkIndex(PairOf(list[i])) < WorkIndex(PairOf(list[j]))

Occurrences(list, pair) == Cardinality({ i \in 1..Len(list) : PairOf(list[i]) = pair })

\* C1: while a batch runs with max_workers = N, at most N transfers are past
\* the gate and not yet out of _download.
C1_AtMostMaxWorkersInFlight ==
    phase = "running" => Cardinality(InFlight) <= args.max_workers

\* C1 witness: the gate is full and a transfer is held back at it.
C1_Witness ==
    /\ phase = "running"
    /\ Cardinality(InFlight) = args.max_workers
    /\ \E t \in Tasks : pc[t] = "wait"

\* C2: the returned succeeded and failed lists are each in work-list order,
\* whichever transfer finished first.
C2_StablePartition ==
    phase = "returned" =>
        /\ InWorkOrder(results.succeeded)
        /\ InWorkOrder(results.failed)

\* C2 witness: two transfers land in the same list and the later one of the
\* work list finished first.
C2_Witness ==
    /\ phase = "returned"
    /\ Len(results.succeeded) >= 2
    /\ first_done = WorkIndex(PairOf(results.succeeded[2]))

\* C3: on return every work item is in exactly one of the two lists, exactly
\* once; it is in succeeded, with a byte count, exactly when its _download
\* returned, and otherwise in failed with the exception that was caught.
C3_ExactlyOneOutcomeEach ==
    phase = "returned" =>
        /\ Len(results.succeeded) + Len(results.failed) = Len(work)
        /\ \A t \in Tasks :
            /\ Occurrences(results.succeeded, work[t])
                 + Occurrences(results.failed, work[t]) = 1
            /\ pc[t] = "ok" <=>
                 \E i \in 1..Len(results.succeeded) :
                    /\ PairOf(results.succeeded[i]) = work[t]
                    /\ results.succeeded[i][3].type = "int"
            /\ pc[t] = "caught" <=>
                 \E i \in 1..Len(results.failed) :
                    /\ results.failed[i] = <<work[t][1], work[t][2], result[t]>>
                    /\ result[t].type \in ExceptionTypes

\* C3 witness: a batch returned with one transfer in each list.
C3_Witness ==
    /\ phase = "returned"
    /\ Len(results.succeeded) = 1
    /\ Len(results.failed) = 1

\* C4: download_files raises only before any transfer exists; once transfers
\* run, their failures are caught, every sibling is attempted and finishes,
\* and the call returns the dictionary.
C4_FailuresStayLocal ==
    /\ phase = "raised" => Tasks = {}
    /\ \A t \in Tasks : pc[t] # "raised"
    /\ phase = "returned" =>
          /\ \A t \in Tasks : gets[t] = 1 /\ t \in Finished
          /\ Len(results.succeeded) + Len(results.failed) = Len(work)

\* C4 witness: a transfer failed first, its sibling then succeeded, and the
\* call returned.
C4_Witness ==
    /\ phase = "returned"
    /\ first_done # 0
    /\ pc[first_done] = "caught"
    /\ \E t \in Tasks : pc[t] = "ok"

\* C5: the byte count of a successful transfer is the number of bytes written
\* to its file, whatever Content-Length said or did not say.
C5_ByteCountIsBytesWritten ==
    \A t \in Tasks : pc[t] = "ok" => result[t].n = written[t]

SubSeqOf(part, whole) ==
    \E i \in 1..(Len(whole) + 1), j \in 0..Len(whole) : SubSeq(whole, i, j) = part

\* C6: a response whose status is not 200 ends the transfer as caught, with an
\* error whose message names the URL, and the outcome is in failed, never in
\* succeeded.
C6_Non200IsFailed ==
    \A t \in Tasks :
        status[t] \notin {0, 200} =>
            /\ pc[t] = "caught"
            /\ result[t].type = "AssertionError"
            /\ SubSeqOf(work[t][1], result[t].msg)
            /\ phase = "returned" =>
                 /\ Occurrences(results.failed, work[t]) = 1
                 /\ Occurrences(results.succeeded, work[t]) = 0

\* C6 witness: a batch returned in which a transfer was answered 404.
C6_Witness ==
    /\ phase = "returned"
    /\ \E t \in Tasks : status[t] = 404

\* what a request resolves to: (trimmed URL, destination path)
Resolved(r) ==
    LET p == _process_url(r.args)
    IN  <<p.url, os_path_join(strip(args.download_dir), p.filename)>>

\* the destination existed when the batch was normalised
ExistedAtStart(path) == PathExists(dirs, fs0.files, path)

Items == args.urls.items

FirstOccurrence(pair) ==
    CHOOSE i \in 1..Len(Items) :
        /\ Resolved(Items[i]) = pair
        /\ \A j \in 1..(i - 1) : Resolved(Items[j]) # pair

Scheduled == phase \in {"running", "returned"}

\* C7: the work list holds each distinct (trimmed URL, destination path) of
\* the requests that were kept exactly once, in order of first occurrence, and
\* each is requested once and has one outcome when the batch returns.
C7_DuplicatesCollapsed ==
    Scheduled =>
        /\ \A i, j \in 1..Len(work) : i # j => work[i] # work[j]
        /\ { work[i] : i \in 1..Len(work) } =
             { Resolved(Items[i]) : i \in { k \in 1..Len(Items) :
                   args.replace_existing \/ ~ExistedAtStart(Resolved(Items[k])[2]) } }
        /\ \A i, j \in 1..Len(work) :
             i < j => FirstOccurrence(work[i]) < FirstOccurrence(work[j])
        /\ \A t \in Tasks : gets[t] <= 1
        /\ phase = "returned" =>
             \A t \in Tasks :
                /\ gets[t] = 1
                /\ Occurrences(results.succeeded \o results.failed, work[t]) = 1

\* C7 witness: two different requests resolve to one pair, which was
\* requested once and has its one outcome.
C7_Witness ==
    /\ phase = "returned"
    /\ Len(Items) = 2
    /\ Items[1] # Items[2]
    /\ Resolved(Items[1]) = Resolved(Items[2])
    /\ Len(work) = 1
    /\ gets[1] = 1

\* C8: with replace_existing false a request whose destination existed is not
\* in the work list, its file is neither opened nor changed and it is in
\* neither list; with replace_existing true it is in the work list and has
\* been requested when the batch returns.
C8_ExistingIsSkipped ==
    Scheduled =>
        \A i \in 1..Len(Items) :
            LET pair == Resolved(Items[i])
                path == pair[2]
            IN  /\ (~args.replace_existing /\ ExistedAtStart(path)) =>
                     /\ ~Contains(work, pair)
                     /\ path \notin opened
                     /\ path \in DOMAIN fs0.files =>
                          path \in DOMAIN files /\ files[path] = fs0.files[path]
                     /\ Occurrences(results.succeeded \o results.failed, pair) = 0
                /\ args.replace_existing =>
                     /\ Contains(work, pair)
                     /\ phase = "returned" => gets[WorkIndex(pair)] = 1

\* C8 witness: a batch returned that skipped a request whose file existed and
\* requested another.
C8_Witness ==
    /\ phase = "returned"
    /\ ~args.replace_existing
    /\ \E i \in 1..Len(Items) :
          /\ Resolved(Items[i])[2] \in DOMAIN fs0.files
          /\ files[Resolved(Items[i])[2]] = OldContent
    /\ \E t \in Tasks : gets[t] = 1

\* C9: an empty request sequence, list or tuple, makes download_files raise
\* with the destination directory not created.
C9_EmptyRequestsRaise ==
    (phase # "idle" /\ Items = <<>>) =>
        /\ phase = "raised"
        /\ dirs = fs0.dirs

\* C10: max_workers <= 0, or a download_dir that is empty once trimmed, makes
\* download_files raise with the file system as it was and no request issued.
C10_BadParametersRaiseEarly ==
    (phase # "idle" /\ (args.max_workers <= 0 \/ strip(args.download_dir) = <<>>)) =>
        /\ phase = "raised"
        /\ error = "AssertionError"
        /\ dirs = fs0.dirs
        /\ files = fs0.files
        /\ Tasks = {}

\* C10 witness: requests were given and the directory was missing, yet
\* max_workers = 0 ended the call with nothing created.
C10_Witness ==
    /\ phase = "raised"
    /\ args.max_workers = 0
    /\ Items # <<>>
    /\ strip(args.download_dir) = <<"d">>
    /\ <<"d">> \notin dirs

\* C11: a request whose URL is empty once trimmed makes download_files
\* raise while it normalises: no transfer exists, for no request of the batch.
C11_EmptyUrlAbortsBatch ==
    (phase # "idle" /\ \E i \in 1..Len(Items) : strip(Items[i].args[1]) = <<>>) =>
        /\ phase = "raised"
        /\ Tasks = {}
        /\ opened = {}
        /\ files = fs0.files

\* C11 witness: the call passed its parameter asserts and made the directory,
\* a well-formed request came first, and the empty URL after it stopped it.
C11_Witness ==
    /\ phase = "raised"
    /\ error = "AssertionError"
    /\ dirs # fs0.dirs
    /\ Len(Items) = 2
    /\ strip(Items[1].args[1]) # <<>>
    /\ strip(Items[2].args[1]) = <<>>

\* C12: a request with an explicit file name that is empty once trimmed makes
\* download_files raise, with no transfer created.
C12_EmptyFileNameRaises ==
    (phase # "idle" /\ \E i \in 1..Len(Items) :
        Len(Items[i].args) >= 2 /\ strip(Items[i].args[2]) = <<>>) =>
            /\ phase = "raised"
            /\ Tasks = {}

\* C13: the free slots and the transfers in flight always add up to
\* max_workers, so a transfer that failed gave its slot back, and every slot
\* is free when the batch has returned.
C13_SlotsAlwaysReturned ==
    Scheduled =>
        /\ sem + Cardinality(InFlight) = args.max_workers
        /\ phase = "returned" => sem = args.max_workers

\* C13 witness: a batch returned after a transfer that held a slot failed.
C13_Witness ==
    /\ phase = "returned"
    /\ sem = args.max_workers
    /\ \E t \in Tasks : pc[t] = "caught" /\ gets[t] = 1

\* C15: all_bar has one tick for each transfer that is over, successful or
\* not, and none for a transfer that is not; at return that is one per work
\* item.
C15_OneTickPerFinishedAttempt ==
    Scheduled =>
        /\ bar_n = Cardinality(Finished)
        /\ phase = "returned" => bar_n = Len(work)

\* C15 witness: a batch returned with a failed and a successful transfer and
\* two ticks.
C15_Witness ==
    /\ phase = "returned"
    /\ bar_n = 2
    /\ \E t \in Tasks : pc[t] = "caught"
    /\ \E t \in Tasks : pc[t] = "ok"

\* C16: no work item issues a second network request: a transfer that is over,
\* failed or successful, has issued exactly one and stays over.
C16_AtMostOneRequestEach ==
    \A t \in Tasks :
        /\ gets[t] <= 1
        /\ pc[t] \in {"stream", "ok", "caught"} => gets[t] = 1
        /\ pc[t] \in {"wait", "get"} => gets[t] = 0

\* C16 witness: a transfer failed on a broken connection and its sibling is
\* still being served; the failed one has its single request behind it.
C16_Witness ==
    /\ phase = "running"
    /\ \E t \in Tasks :
          /\ pc[t] = "caught"
          /\ result[t].type = "ClientError"
          /\ gets[t] = 1
    /\ \E t \in Tasks : pc[t] = "stream"

\* a transfer is held at the gate although fewer than max_workers are in flight
GateHasRoom ==
    /\ phase = "running"
    /\ \E t \in Tasks : pc[t] = "wait"
    /\ Cardinality(InFlight) < args.max_workers

\* C14: whenever a transfer waits at the gate while fewer than max_workers
\* are in flight, a waiting transfer is admitted, and admission never takes
\* the number in flight above max_workers.
C14_GateIsWorkConserving ==
    /\ GateHasRoom ~> ~GateHasRoom
    /\ [](phase = "running" => Cardinality(InFlight) <= args.max_workers)

\* C14 witness: with more work items than slots, a transfer is over and the
\* gate is full again: the one that waited has taken the slot.
C14_Witness ==
    /\ phase = "running"
    /\ Len(work) > args.max_workers
    /\ Finished # {}
    /\ Cardinality(InFlight) = args.max_workers
    /\ \A t \in Tasks : pc[t] # "wait"

\* C17: download_files has returned only when every transfer is over, and a
\* batch that runs does return.
C17_ReturnsWhenAllFinished ==
    /\ [](phase = "returned" => Finished = Tasks)
    /\ (phase = "running") ~> (phase = "returned")

\* C17 witness: a batch with more work items than slots has returned, every
\* transfer over.
C17_Witness ==
    /\ phase = "returned"
    /\ Len(work) > args.max_workers
    /\ Finished = Tasks

\* C22: a call raises only for its own parameters (AssertionError): an
\* invocation that follows one that returned or raised runs as a first one
\* would, it never fails on what the earlier one left behind.
C22_NothingCarriedBetweenCalls ==
    phase = "raised" => error = "AssertionError"

\* C23: no two transfers of a batch are streaming into the same destination
\* path at once.
C23_OneWriterPerPath ==
    \A t1, t2 \in Tasks :
        (t1 # t2 /\ pc[t1] = "stream" /\ pc[t2] = "stream")
            => work[t1][2] # work[t2][2]

\* C24: when a batch has returned, the bar has received as many ticks as the
\* total it was made with.
C24_TicksEqualTotal ==
    phase = "returned" => bar_n = bar_total

\* C25: a destination path is opened only by a transfer that has seen
\* status 200, and a path that was not opened is as it was when the batch
\* began: absent if it was absent, with its content if it was there.
C25_NoOpenBefore200 ==
    Scheduled =>
        /\ \A path \in opened : \E t \in Tasks : work[t][2] = path /\ status[t] = 200
        /\ \A t \in Tasks :
            work[t][2] \notin opened =>
                /\ work[t][2] \in DOMAIN files <=> work[t][2] \in DOMAIN fs0.files
                /\ work[t][2] \in DOMAIN files => files[work[t][2]] = fs0.files[work[t][2]]

\* C25 witness: a transfer onto an existing file got a 404 and the batch has
\* returned with the file's old content in place.
C25_Witness ==
    /\ phase = "returned"
    /\ \E t \in Tasks :
        /\ status[t] = 404
        /\ pc[t] = "caught"
        /\ work[t][2] \in DOMAIN fs0.files
        /\ work[t][2] \notin opened
        /\ files[work[t][2]] = OldContent

\* ------------------------------------------- file_ops on a file system
\* download_files is not running: its variables stay as they are
DownloaderFrame ==
    UNCHANGED <<loop_closed, calls, phase, args, error, fs0, work, bar_total, bar_n,
                sem, pc, status, size, written, result, gets, opened, first_done,
                results>>

\* the paths the utilities are called with
FsPaths ==
    { <<"d">>, <<"d", "/">>, <<"d", "/", "a">>, <<"d", "/", "e">>,
      <<"d", "/", "e", "/", "f">> }

NewContent == <<"new">>

InitFs ==
    /\ \E fs \in InitialFileSystems :
        /\ dirs = fs.dirs
        /\ files = fs.files
        /\ fs0 = fs
    /\ Quiescent
    /\ LlmUnused
    /\ pf = NoCall

\* create_dir(p)
CreateDir(p) ==
    LET made == create_dir(dirs, files, p)
    IN  /\ dirs' = made.dirs
        /\ files' = made.files
        /\ pf' = [fn |-> "create_dir", tgt_dir |-> p, raises |-> made.raises,
                  ok |-> made.ok, before |-> [dirs |-> dirs, files |-> files]]
        /\ DownloaderFrame
        /\ LlmFrame

\* create_dir(p, remove_existing, build_tree, exist_ok)
CreateDirKw(p, remove_existing, build_tree, exist_ok) ==
    LET made == create_dir_kw(dirs, files, p, remove_existing, build_tree, exist_ok)
    IN  /\ dirs' = made.dirs
        /\ files' = made.files
        /\ pf' = [fn |-> "create_dir_kw", tgt_dir |-> p, raises |-> made.raises,
                  ok |-> made.ok, before |-> [dirs |-> dirs, files |-> files]]
        /\ DownloaderFrame
        /\ LlmFrame

\* remove_dir(p, only_empty)
RemoveDir(p, only_empty) ==
    LET gone == remove_dir(dirs, files, p, only_empty)
    IN  /\ dirs' = gone.dirs
        /\ files' = gone.files
        /\ pf' = [fn |-> "remove_dir", tgt_dir |-> p, raises |-> gone.raises,
                  ok |-> gone.ok, before |-> [dirs |-> dirs, files |-> files]]
        /\ DownloaderFrame
        /\ LlmFrame

\* open(p, "wb") and a write, as _download does it
WriteFile(p) ==
    /\ CanOpenForWrite(dirs, p)
    /\ files' = (p :> NewContent) @@ files
    /\ pf' = [fn |-> "open", tgt_dir |-> p, raises |-> FALSE, ok |-> TRUE,
              before |-> [dirs |-> dirs, files |-> files]]
    /\ UNCHANGED dirs
    /\ DownloaderFrame
    /\ LlmFrame

NextFs ==
    \/ \E p \in FsPaths : CreateDir(p)
    \/ \E p \in FsPaths, remove_existing \in BOOLEAN, build_tree \in BOOLEAN,
          exist_ok \in BOOLEAN : CreateDirKw(p, remove_existing, build_tree, exist_ok)
    \/ \E p \in FsPaths, only_empty \in BOOLEAN : RemoveDir(p, only_empty)
    \/ \E p \in FsPaths : WriteFile(p)

SpecFs == InitFs /\ [][NextFs]_vars

MaxText == 3

\* Python's slice s[start:stop]: a negative index counts from the end, and
\* both ends are clamped to the sequence
SliceIndex(i, n) == IF i < 0 THEN Max(i + n, 0) ELSE Min(i, n)

Slice(s, start, stop) ==
    LET lo == SliceIndex(start, Len(s))
        hi == SliceIndex(stop, Len(s))
    IN  IF lo >= hi THEN <<>> ELSE SubSeq(s, lo + 1, hi)

\* s[start:]
SliceFrom(s, start) == Slice(s, start, Len(s))

\* num_ops.is_odd
is_odd(num) == num % 2 # 0

\* a bool used as a number
AsInt(b) == IF b THEN 1 ELSE 0

\* the modes trunc_str accepts
mode_set == {1, 2, 3, 4}

\* trunc_str(text, n, mode, replacement)
trunc_str(text, n, mode, replacement) ==
    IF mode \notin mode_set THEN [raises |-> TRUE, out |-> <<>>]
    ELSE IF Len(text) <= n THEN [raises |-> FALSE, out |-> text]
    ELSE IF mode = 1
    THEN [raises |-> FALSE, out |-> Slice(text, 0, n) \o replacement]
    ELSE IF mode = 2
    THEN LET left == n \div 2
         IN  [raises |-> FALSE,
              out |-> Slice(text, 0, left) \o replacement
                          \o SliceFrom(text, 0 - (left + AsInt(is_odd(n))))]
    ELSE IF mode = 3
    THEN LET mid == (Len(text) - n) \div 2
         IN  [raises |-> FALSE,
              out |-> replacement \o Slice(text, mid, mid + n) \o replacement]
    ELSE [raises |-> FALSE, out |-> replacement \o SliceFrom(text, 0 - n)]

\* the strings over {a, b} of length at most MaxText
Texts == UNION { [1..k -> {"a", "b"}] : k \in 0..MaxText }

Replacements == { <<".", ".", ".">>, <<"#">> }

\* the calls of trunc_str that are made
TruncStrCalls ==
    [fn : {"trunc_str"}, done : {FALSE}, text : Texts, n : 0..(MaxText + 1),
     mode : 1..5, replacement : Replacements, raises : {FALSE}, out : {<<>>}]

\* the file system stays as it is
FsFrame == UNCHANGED <<dirs, files>>

InitTrunc ==
    /\ dirs = {}
    /\ files = <<>>
    /\ fs0 = [dirs |-> {}, files |-> <<>>]
    /\ Quiescent
    /\ LlmUnused
    /\ pf \in TruncStrCalls

TruncStr ==
    /\ pf.fn = "trunc_str"
    /\ ~pf.done
    /\ LET r == trunc_str(pf.text, pf.n, pf.mode, pf.replacement)
       IN  pf' = [pf EXCEPT !.done = TRUE, !.raises = r.raises, !.out = r.out]
    /\ FsFrame
    /\ DownloaderFrame
    /\ LlmFrame

NextTrunc == TruncStr

SpecTrunc == InitTrunc /\ [][NextTrunc]_vars

\* the first k and the last k elements of s
FirstK(s, k) == SubSeq(s, 1, k)
LastK(s, k) == SubSeq(s, Len(s) - k + 1, Len(s))

\* C19: for n >= 0 and a mode in {1, 2, 3, 4}, trunc_str returns text itself
\* when len(text) <= n, and otherwise the replacement with exactly n
\* characters of text: its first n (mode 1), its first n // 2 and its last
\* n - n // 2 (mode 2), n consecutive ones from inside (mode 3), its last n
\* (mode 4).
C19_KeepsExactlyNCharacters ==
    (pf.fn = "trunc_str" /\ pf.done /\ pf.mode \in mode_set) =>
        /\ ~pf.raises
        /\ IF Len(pf.text) <= pf.n THEN pf.out = pf.text
           ELSE CASE pf.mode = 1 -> pf.out = FirstK(pf.text, pf.n) \o pf.replacement
                  [] pf.mode = 2 ->
                        pf.out = FirstK(pf.text, pf.n \div 2) \o pf.replacement
                                    \o LastK(pf.text, pf.n - (pf.n \div 2))
                  [] pf.mode = 3 ->
                        \E i \in 0..(Len(pf.text) - pf.n) :
                            pf.out = pf.replacement
                                        \o SubSeq(pf.text, i + 1, i + pf.n)
                                        \o pf.replacement
                  [] pf.mode = 4 -> pf.out = pf.replacement \o LastK(pf.text, pf.n)

\* ---------------------------------------------------------------- array
MaxArr == 4
MaxBatch == 3
MaxWeight == 2

\* round(num / den) for num >= 0, den > 0: to the nearest integer, a tie to
\* the even one
Round(num, den) ==
    LET q == num \div den
        r == num % den
    IN  IF 2 * r < den THEN q
        ELSE IF 2 * r > den THEN q + 1
        ELSE IF q % 2 = 0 THEN q ELSE q + 1

RECURSIVE Sum(_)
Sum(ws) == IF ws = <<>> THEN 0 ELSE Head(ws) + Sum(Tail(ws))

\* the loop of split_arr from the i-th weight on; the else branch yields the
\* rest once weights[:-1] is used up
RECURSIVE SplitFrom(_, _, _, _)
SplitFrom(arr, weights, i, start_idx) ==
    IF i >= Len(weights) THEN << SliceFrom(arr, start_idx) >>
    ELSE LET stop == start_idx + Round(Len(arr) * weights[i], Sum(weights))
         IN  << Slice(arr, start_idx, stop) >> \o SplitFrom(arr, weights, i + 1, stop)

\* split_arr(arr, weights), the generator run to its end: the two asserts,
\* and x / sum(weights) dividing by zero when it is evaluated
split_arr(arr, weights) ==
    IF Len(weights) = 0 \/ \E i \in 1..Len(weights) : weights[i] < 0
    THEN [raises |-> TRUE, out |-> <<>>]
    ELSE IF Len(weights) > 1 /\ Sum(weights) = 0
    THEN [raises |-> TRUE, out |-> <<>>]
    ELSE [raises |-> FALSE, out |-> SplitFrom(arr, weights, 1, 0)]

NotEmpty(batch) == Len(batch) > 0

\* a variant of the filter of get_batches that lets every batch through
KeepsBatch_Always(batch) == TRUE

\* `if len(batch) > 0`
KeepsBatch(batch) == NotEmpty(batch)

\* get_batches(arr, batch_size), the generator run to its end
get_batches(arr, batch_size) ==
    IF ~(batch_size > 0) THEN [raises |-> TRUE, out |-> <<>>]
    ELSE LET split == split_arr(arr, Fill(Len(arr) \div batch_size, batch_size)
                                          \o << Len(arr) % batch_size >>)
         IN  [raises |-> split.raises, out |-> SelectSeq(split.out, KeepsBatch)]

\* the arrays over {a, b} of length at most MaxArr
Arrays == UNION { [1..k -> {"a", "b"}] : k \in 0..MaxArr }

GetBatchesCalls ==
    [fn : {"get_batches"}, done : {FALSE}, arr : Arrays, batch_size : 0..MaxBatch,
     raises : {FALSE}, out : {<<>>}]

SplitArrCalls ==
    [fn : {"split_arr"}, done : {FALSE}, arr : Arrays,
     weights : UNION { [1..k -> 0..MaxWeight] : k \in 0..2 },
     raises : {FALSE}, out : {<<>>}]

InitArray ==
    /\ dirs = {}
    /\ files = <<>>
    /\ fs0 = [dirs |-> {}, files |-> <<>>]
    /\ Quiescent
    /\ LlmUnused
    /\ pf \in GetBatchesCalls \cup SplitArrCalls

GetBatches ==
    /\ pf.fn = "get_batches"
    /\ ~pf.done
    /\ LET r == get_batches(pf.arr, pf.batch_size)
       IN  pf' = [pf EXCEPT !.done = TRUE, !.raises = r.raises, !.out = r.out]
    /\ FsFrame
    /\ DownloaderFrame
    /\ LlmFrame

SplitArr ==
    /\ pf.fn = "split_arr"
    /\ ~pf.done
    /\ LET r == split_arr(pf.arr, pf.weights)
       IN  pf' = [pf EXCEPT !.done = TRUE, !.raises = r.raises, !.out = r.out]
    /\ FsFrame
    /\ DownloaderFrame
    /\ LlmFrame

NextArray ==
    \/ GetBatches
    \/ SplitArr

SpecArray == InitArray /\ [][NextArray]_vars

RECURSIVE Concat(_)
Concat(ss) == IF ss = <<>> THEN <<>> ELSE Head(ss) \o Concat(Tail(ss))

\* C20: for batch_size > 0, get_batches yields only non-empty batches of
\* length at most batch_size, every batch but the last of length exactly
\* batch_size, their concatenation in order is arr, and an empty arr yields
\* nothing.
C20_BatchesPartitionArr ==
    (pf.fn = "get_batches" /\ pf.done /\ pf.batch_size > 0) =>
        /\ ~pf.raises
        /\ \A i \in 1..Len(pf.out) :
            /\ Len(pf.out[i]) >= 1
            /\ Len(pf.out[i]) <= pf.batch_size
            /\ i < Len(pf.out) => Len(pf.out[i]) = pf.batch_size
        /\ Concat(pf.out) = pf.arr
        /\ pf.arr = <<>> => pf.out = <<>>

\* C20 witness: an array that batch_size does not divide has been cut into
\* full batches and a shorter last one.
C20_Witness ==
    /\ pf.fn = "get_batches"
    /\ pf.done
    /\ pf.batch_size >= 2
    /\ Len(pf.arr) > pf.batch_size
    /\ Len(pf.arr) % pf.batch_size # 0
    /\ Len(pf.out) >= 2
    /\ Len(pf.out[Len(pf.out)]) < pf.batch_size

\* --------------------------------------------------------- llm/template
\* Python values that reach a template: None, a str, an int
None == [t |-> "None"]
StrVal(x) == [t |-> "str", v |-> x]
IntVal(n) == [t |-> "int", v |-> n]

Digits == <<"0", "1", "2", "3", "4", "5", "6", "7", "8", "9">>

\* str(n) for n >= 0
RECURSIVE IntToStr(_)
IntToStr(n) ==
    IF n < 10 THEN << Digits[n + 1] >>
    ELSE IntToStr(n \div 10) \o << Digits[(n % 10) + 1] >>

\* str(v)
str(v) ==
    IF v.t = "None" THEN <<"N", "o", "n", "e">>
    ELSE IF v.t = "int" THEN IntToStr(v.v)
    ELSE v.v

\* {k: None if v is None else str(v) for k, v in sub.items()}
_process_substitutions(sub) ==
    [k \in DOMAIN sub |-> IF sub[k] = None THEN None ELSE StrVal(str(sub[k]))]

\* a template is a sequence of literal pieces and {name} fields
Lit(x) == [field |-> FALSE, text |-> x]
Field(name) == [field |-> TRUE, text |-> name]

FieldsOf(template) ==
    { template[i].text : i \in { j \in 1..Len(template) : template[j].field } }

\* template.format(**kw), every field of the template being a key of kw
RECURSIVE format(_, _)
format(template, kw) ==
    IF template = <<>> THEN <<>>
    ELSE (IF Head(template).field THEN str(kw[Head(template).text])
          ELSE Head(template).text) \o format(Tail(template), kw)

\* `k in self._variables and v is None`
IsOmitted(k, variables, given, merged) ==
    k \in DOMAIN variables /\ merged[k] = None

\* PromptTemplate.__call__(**substitutions) on an instance with _template
\* and _variables: the exception raised ("none" when it returns), the
\* string returned, and _variables afterwards
PromptTemplate__call__(template, variables, substitutions) ==
    LET given == _process_substitutions(substitutions)
        merged == given @@ variables
        omitted == { k \in DOMAIN merged : IsOmitted(k, variables, given, merged) }
    IN  IF omitted # {}
        THEN [exc |-> "ValueError", out |-> <<>>, variables |-> variables]
        ELSE IF ~(FieldsOf(template) \subseteq DOMAIN merged)
        THEN [exc |-> "KeyError", out |-> <<>>, variables |-> variables]
        ELSE [exc |-> "none", out |-> format(template, merged), variables |-> variables]

Names == {"x", "y"}
Values == { None, StrVal(<<"v">>), IntVal(7) }

\* the keyword dictionaries over Names
Kwargs == UNION { [S -> Values] : S \in SUBSET Names }

Templates ==
    { << Lit(<<"a">>), Field("x"), Lit(<<"b">>), Field("y") >>,
      << Field("x"), Lit(<<"{">>) >> }

\* an instance made by PromptTemplate(template, **variables) and the
\* substitutions it is about to be called with
TemplateCalls ==
    { [fn |-> "PromptTemplate.__call__", done |-> FALSE, template |-> tpl,
       declared |-> vs, variables |-> _process_substitutions(vs),
       substitutions |-> sub, exc |-> "none", out |-> <<>>] :
          tpl \in Templates, vs \in Kwargs, sub \in Kwargs }

InitTemplate ==
    /\ dirs = {}
    /\ files = <<>>
    /\ fs0 = [dirs |-> {}, files |-> <<>>]
    /\ Quiescent
    /\ LlmUnused
    /\ pf \in TemplateCalls

CallTemplate ==
    /\ pf.fn = "PromptTemplate.__call__"
    /\ ~pf.done
    /\ LET r == PromptTemplate__call__(pf.template, pf.variables, pf.substitutions)
       IN  pf' = [pf EXCEPT !.done = TRUE, !.exc = r.exc, !.out = r.out,
                            !.variables = r.variables]
    /\ FsFrame
    /\ DownloaderFrame
    /\ LlmFrame

NextTemplate == CallTemplate

SpecTemplate == InitTemplate /\ [][NextTemplate]_vars

\* the declared variables whose value is None
RequiredKeys(declared) == { k \in DOMAIN declared : declared[k] = None }

\* the call gives k a value
GivesValue(substitutions, k) == k \in DOMAIN substitutions /\ substitutions[k] # None

\* the declared defaults with the supplied substitutions laid over them
Overridden(declared, substitutions) ==
    [k \in DOMAIN declared \cup DOMAIN substitutions |->
        IF k \in DOMAIN substitutions /\ (substitutions[k] # None \/ k \notin DOMAIN declared)
        THEN substitutions[k] ELSE declared[k]]

\* C21: __call__ raises ValueError exactly when a variable declared with
\* None is given no value by the substitutions; otherwise it returns the
\* template formatted with the defaults overridden by the substitutions
\* (KeyError for a field that has neither); the stored variables are the
\* same after the call.
C21_ValueErrorIffRequiredMissing ==
    (pf.fn = "PromptTemplate.__call__" /\ pf.done) =>
        LET missing == { k \in RequiredKeys(pf.declared) :
                            ~GivesValue(pf.substitutions, k) }
            kw == Overridden(pf.declared, pf.substitutions)
        IN  /\ pf.exc = "ValueError" <=> missing # {}
            /\ pf.exc \in {"ValueError", "KeyError", "none"}
            /\ pf.exc = "KeyError" => ~(FieldsOf(pf.template) \subseteq DOMAIN kw)
            /\ pf.exc = "none" => pf.out = format(pf.template, kw)
            /\ pf.variables = _process_substitutions(pf.declared)

\* -------------------------------------------------------------- llm/msg
MaxMsgs == 4

\* Message(role, content); the content of a user message is kept as its
\* text part. NonEmptyStr refuses "".
Message(role, content) == [role |-> role, content |-> content]

\* a variant of add_system that always inserts at the front
add_system_AlwaysInserts(msgs, prompt) ==
    IF prompt = "" THEN [raises |-> TRUE, msgs |-> msgs]
    ELSE [raises |-> FALSE, msgs |-> << Message("system", prompt) >> \o msgs]

\* Messages.add_system(prompt)
add_system(msgs, prompt) ==
    IF prompt = "" THEN [raises |-> TRUE, msgs |-> msgs]
    ELSE IF Len(msgs) = 0
    THEN [raises |-> FALSE, msgs |-> Append(msgs, Message("system", prompt))]
    ELSE IF msgs[1].role = "system"
    THEN [raises |-> FALSE, msgs |-> [msgs EXCEPT ![1].content = prompt]]
    ELSE [raises |-> FALSE, msgs |-> << Message("system", prompt) >> \o msgs]

\* Messages.add_user(prompt, images): _encode_image may raise before the
\* message is appended
add_user(msgs, prompt, images_ok) ==
    IF prompt = "" \/ ~images_ok THEN [raises |-> TRUE, msgs |-> msgs]
    ELSE [raises |-> FALSE, msgs |-> Append(msgs, Message("user", prompt))]

\* Messages.add_assistant(response): response may be any str, the content
\* of a Message may not be empty
add_assistant(msgs, response) ==
    IF response = "" THEN [raises |-> TRUE, msgs |-> msgs]
    ELSE [raises |-> FALSE, msgs |-> Append(msgs, Message("assistant", response))]

\* Messages.clear()
clear(msgs) == <<>>

\* Messages.remove_last()
remove_last(msgs) == IF Len(msgs) > 0 THEN SubSeq(msgs, 1, Len(msgs) - 1) ELSE msgs

\* Messages.remove_system()
remove_system(msgs) ==
    IF Len(msgs) > 0 /\ msgs[1].role = "system" THEN Tail(msgs) ELSE msgs

SysPrompts == {"s1", "s2"}

InitMessages ==
    /\ dirs = {}
    /\ files = <<>>
    /\ fs0 = [dirs |-> {}, files |-> <<>>]
    /\ Quiescent
    /\ pf = NoCall
    /\ messages = <<>>
    /\ llm = NoLlm

\* what every operation on a Messages leaves alone
MessagesFrame ==
    /\ FsFrame
    /\ DownloaderFrame
    /\ UNCHANGED llm

Did(fn, arg, raises) ==
    pf' = [fn |-> fn, arg |-> arg, raises |-> raises, before |-> messages]

AddSystem(prompt) ==
    /\ Len(messages) < MaxMsgs
    /\ LET r == add_system(messages, prompt)
       IN  messages' = r.msgs /\ Did("add_system", prompt, r.raises)
    /\ MessagesFrame

AddUser(prompt, images_ok) ==
    /\ Len(messages) < MaxMsgs
    /\ LET r == add_user(messages, prompt, images_ok)
       IN  messages' = r.msgs /\ Did("add_user", prompt, r.raises)
    /\ MessagesFrame

AddAssistant(response) ==
    /\ Len(messages) < MaxMsgs
    /\ LET r == add_assistant(messages, response)
       IN  messages' = r.msgs /\ Did("add_assistant", response, r.raises)
    /\ MessagesFrame

RemoveLast ==
    /\ messages' = remove_last(messages)
    /\ Did("remove_last", "", FALSE)
    /\ MessagesFrame

RemoveSystem ==
    /\ messages' = remove_system(messages)
    /\ Did("remove_system", "", FALSE)
    /\ MessagesFrame

Clear ==
    /\ messages' = clear(messages)
    /\ Did("clear", "", FALSE)
    /\ MessagesFrame

NextMessages ==
    \/ \E prompt \in SysPrompts \cup {""} : AddSystem(prompt)
    \/ \E prompt \in {"u", ""}, images_ok \in BOOLEAN : AddUser(prompt, images_ok)
    \/ \E response \in {"r", ""} : AddAssistant(response)
    \/ RemoveLast
    \/ RemoveSystem
    \/ Clear

SpecMessages == InitMessages /\ [][NextMessages]_vars

\* C29: the list holds at most one system message, at index 0 when there
\* is one, and add_system on a list that starts with a system message
\* replaces that message's content and leaves the length and every other
\* message as they were.
C29_OneSystemMessageAtFront ==
    /\ \A i \in 1..Len(messages) : messages[i].role = "system" => i = 1
    /\ (/\ pf.fn = "add_system"
        /\ ~pf.raises
        /\ pf.before # <<>>
        /\ pf.before[1].role = "system")
            => /\ Len(messages) = Len(pf.before)
               /\ messages[1] = Message("system", pf.arg)
               /\ \A i \in 2..Len(messages) : messages[i] = pf.before[i]

\* C29 witness: add_system has replaced a different system prompt in a
\* list that holds other messages too.
C29_Witness ==
    /\ pf.fn = "add_system"
    /\ ~pf.raises
    /\ Len(pf.before) >= 2
    /\ pf.before[1].role = "system"
    /\ pf.before[1].content # pf.arg
    /\ messages[1].content = pf.arg

\* -------------------------------------------------------------- llm/llm
MaxRetries == 1
MaxLlmCalls == 2

\* what self._client.chat.completions.create does in one attempt: it raises,
\* or it returns a completion
Raises(exc) == [kind |-> "raise", exc |-> exc]

Completion(choices, has_content, content, parses, usage) ==
    [kind |-> "completion", choices |-> choices, has_content |-> has_content,
     content |-> content, parses |-> parses, usage |-> usage]

\* parses: response_type.from_str(asst_msg) returns; usage: completion.usage
\* is there
ClientOutcomes ==
    { Raises("InternalServerError"), Raises("RateLimitError"),
      Raises("APIConnectionError"),
      Completion(0, FALSE, "", TRUE, TRUE),
      Completion(1, FALSE, "", TRUE, TRUE),
      Completion(1, TRUE, "r", FALSE, TRUE),
      Completion(1, TRUE, "r", TRUE, TRUE),
      Completion(1, TRUE, "", TRUE, TRUE),
      Completion(1, TRUE, "r", TRUE, FALSE) }

\* the try body of one attempt: the exception it raises, "none" if it
\* reaches the else clause
TryBody(o) ==
    IF o.kind = "raise" THEN o.exc
    ELSE IF o.choices = 0 THEN "LlmChatError"
    ELSE IF ~o.has_content THEN "LlmChatError"
    ELSE IF ~o.parses THEN "ResponseModelParsingError"
    ELSE "none"

\* a variant of IsRetried: every exception is retried
IsRetried_Any(exc) == TRUE

\* except (InternalServerError, LlmChatError, RateLimitError,
\*         ResponseModelParsingError)
IsRetried(exc) ==
    exc \in { "InternalServerError", "LlmChatError", "RateLimitError",
              "ResponseModelParsingError" }

\* LlmOutput: the fields an attempt fills in
LlmOutput(detail, response) == [detail |-> detail, response |-> response]

\* the prompts __call__ is given: a str, or a PromptTemplate
StrPrompt(text) == [template |-> FALSE, text |-> text]
TemplatePrompt(tpl, variables) ==
    [template |-> TRUE, tpl |-> tpl, variables |-> _process_substitutions(variables)]

Prompts ==
    { StrPrompt("u"),
      TemplatePrompt(<< Field("x") >>, [k \in {"x"} |-> None]) }

\* prompt() if isinstance(prompt, PromptTemplate) else prompt; a rendered
\* template is written "t"
PromptText(prompt) ==
    IF ~prompt.template THEN [exc |-> "none", text |-> prompt.text]
    ELSE [exc |-> PromptTemplate__call__(prompt.tpl, prompt.variables, <<>>).exc,
          text |-> "t"]

\* Llm(model, max_retries=n)
NewLlm(n) ==
    [pc |-> "idle", max_retries |-> n, history |-> <<>>, calls |-> 0, r |-> 0,
     exc |-> "none", before |-> <<>>, h0 |-> 0, trail |-> <<>>, output |-> 0]

InitLlm ==
    /\ dirs = {}
    /\ files = <<>>
    /\ fs0 = [dirs |-> {}, files |-> <<>>]
    /\ Quiescent
    /\ pf = NoCall
    /\ messages = <<>>
    /\ \E n \in 0..MaxRetries : llm = NewLlm(n)

\* what an Llm leaves alone
LlmObjectFrame ==
    /\ FsFrame
    /\ DownloaderFrame
    /\ UNCHANGED pf

\* the system prompt of a call: add_system or remove_system, and the
\* add_system again on an empty conversation
DynamicSystemPrompt(msgs, sys_prompt) ==
    LET m1 == IF sys_prompt # None THEN add_system(msgs, sys_prompt.v).msgs
              ELSE remove_system(msgs)
    IN  IF Len(m1) = 0 /\ sys_prompt # None THEN add_system(m1, sys_prompt.v).msgs
        ELSE m1

\* Llm.__call__ from its first line to the head of the retry loop
LlmCall(prompt, sys_prompt) ==
    /\ llm.pc = "idle"
    /\ llm.calls < MaxLlmCalls
    /\ LET m == DynamicSystemPrompt(messages, sys_prompt)
           text == PromptText(prompt)
           user == add_user(m, text.text, TRUE)
           begun == [llm EXCEPT !.calls = @ + 1, !.before = messages,
                                !.h0 = Len(llm.history), !.trail = <<>>,
                                !.r = 0, !.output = 0]
       IN  IF text.exc # "none"
           THEN /\ messages' = m
                /\ llm' = [begun EXCEPT !.pc = "raised", !.exc = text.exc]
           ELSE /\ messages' = user.msgs
                /\ llm' = [begun EXCEPT !.pc = "attempt", !.exc = "none"]
    /\ LlmObjectFrame

\* one turn of `for r in range(self._max_retries + 1)`: the LlmOutput is
\* appended to the history, the client is called, and the except / else
\* clauses run. An exception raised in the else clause is caught by no
\* except clause of this try.
Attempt(o) ==
    /\ llm.pc = "attempt"
    /\ LET exc == TryBody(o)
           said == add_assistant(messages, o.content)
           tried == [llm EXCEPT !.trail = Append(@, exc)]
           Ends(pc_, exc_, detail, response) ==
               llm' = [tried EXCEPT !.pc = pc_, !.exc = exc_,
                                    !.history = Append(@, LlmOutput(detail, response)),
                                    !.output = IF pc_ = "returned"
                                               THEN Len(llm.history) + 1 ELSE 0]
       IN  IF exc # "none" /\ IsRetried(exc)
           THEN IF llm.r = llm.max_retries
                THEN /\ messages' = remove_last(messages)
                     /\ Ends("raised", exc, exc, "")
                ELSE /\ UNCHANGED messages
                     /\ llm' = [tried EXCEPT !.r = @ + 1,
                                   !.history = Append(@, LlmOutput(exc, ""))]
           ELSE IF exc # "none"
           THEN /\ messages' = remove_last(messages)
                /\ Ends("raised", exc, exc, "")
           ELSE IF said.raises
           THEN /\ UNCHANGED messages
                /\ Ends("raised", "ValidationError", "none", "")
           ELSE IF ~o.usage
           THEN /\ messages' = said.msgs
                /\ Ends("raised", "AttributeError", "none", o.content)
           ELSE /\ messages' = said.msgs
                /\ Ends("returned", "none", "none", o.content)
    /\ LlmObjectFrame

\* the caller has the LlmOutput, or the exception, and goes on
LlmGoesOn ==
    /\ llm.pc \in {"returned", "raised"}
    /\ llm' = [llm EXCEPT !.pc = "idle", !.exc = "none", !.before = messages,
                          !.h0 = Len(llm.history), !.trail = <<>>, !.r = 0,
                          !.output = 0]
    /\ UNCHANGED messages
    /\ LlmObjectFrame

\* Llm.clear_context()
ClearContext ==
    /\ llm.pc = "idle"
    /\ messages # <<>>
    /\ messages' = clear(messages)
    /\ llm' = [llm EXCEPT !.before = <<>>]
    /\ LlmObjectFrame

NextLlm ==
    \/ \E prompt \in Prompts, sys_prompt \in {None} \cup { StrVal(x) : x \in SysPrompts } :
          LlmCall(prompt, sys_prompt)
    \/ \E o \in ClientOutcomes : Attempt(o)
    \/ LlmGoesOn
    \/ ClearContext

SpecLlm == InitLlm /\ [][NextLlm]_vars

\* at most one system message, at the front, then (user, assistant) pairs
WellPaired(msgs) ==
    LET body == IF msgs # <<>> /\ msgs[1].role = "system" THEN Tail(msgs) ELSE msgs
    IN  /\ Len(body) % 2 = 0
        /\ \A i \in 1..Len(body) :
            body[i].role = IF i % 2 = 1 THEN "user" ELSE "assistant"

\* C26: whenever no call is under way, the conversation is at most one
\* system message at index 0 followed by (user, assistant) pairs.
C26_NoUserWithoutReply ==
    llm.pc \in {"idle", "returned", "raised"} => WellPaired(messages)

\* the exceptions the claim names as retried
NamedRetryable ==
    { "InternalServerError", "RateLimitError", "LlmChatError",
      "ResponseModelParsingError" }

\* C27: a call makes at most max_retries + 1 attempts; every attempt that
\* was followed by another raised one of the four named exceptions, and
\* another is made only while fewer than max_retries retries were made; an
\* attempt that raised anything else, or the last allowed attempt when it
\* fails, ends the call with that exception; an attempt that succeeds ends
\* the loop; the history has grown by one LlmOutput per attempt and the
\* output returned is the one of the successful attempt.
C27_BoundedRetries ==
    LET k == Len(llm.trail)
    IN  /\ k <= llm.max_retries + 1
        /\ Len(llm.history) = llm.h0 + k
        /\ \A i \in 1..(k - 1) : llm.trail[i] \in NamedRetryable
        /\ llm.pc = "attempt" =>
              /\ \A i \in 1..k : llm.trail[i] \in NamedRetryable
              /\ k <= llm.max_retries
        /\ llm.pc = "returned" =>
              /\ k >= 1
              /\ llm.trail[k] = "none"
              /\ llm.output = Len(llm.history)
              /\ llm.history[llm.output].response # ""
        /\ (llm.pc = "raised" /\ k >= 1 /\ llm.trail[k] # "none") =>
              /\ llm.exc = llm.trail[k]
              /\ llm.trail[k] \in NamedRetryable => k = llm.max_retries + 1

\* C27 witness: every retry was used and the last allowed attempt succeeded.
C27_Witness ==
    /\ llm.pc = "returned"
    /\ llm.max_retries >= 1
    /\ Len(llm.trail) = llm.max_retries + 1
    /\ llm.output = Len(llm.history)

\* C28: a call that ended by raising has left the conversation as it was
\* before the call.
C28_RaiseLeavesMessagesAsBefore ==
    llm.pc = "raised" => messages = llm.before

\* ----------------------------------------------------------- llm/parser
MaxJson == 6

Quote == "\""
Backslash == "\\"
Newline == "\n"

\* the characters of the texts: braces, the quote, the backslash, the slash
\* and a newline, which is white space and ends a comment
JsonChars == { "{", "}", Quote, Backslash, "/", Newline }

\* \s
IsWhite(c) == c \in { " ", Newline }

\* "(?:\\.|[^"\\])*" tried at an opening quote, from the position after it:
\* the position of the closing quote, 0 when the pattern does not match. A
\* backslash takes the next character with it unless that is a newline.
RECURSIVE StringEnd(_, _)
StringEnd(text, k) ==
    IF k > Len(text) THEN 0
    ELSE IF text[k] = Quote THEN k
    ELSE IF text[k] = Backslash
    THEN IF k + 1 <= Len(text) /\ text[k + 1] # Newline
         THEN StringEnd(text, k + 2) ELSE 0
    ELSE StringEnd(text, k + 1)

\* the end of the white space that starts at k
RECURSIVE WhiteEnd(_, _)
WhiteEnd(text, k) ==
    IF k <= Len(text) /\ IsWhite(text[k]) THEN WhiteEnd(text, k + 1) ELSE k

\* the end of the line that holds position k: .* stops before a newline
RECURSIVE LineEnd(_, _)
LineEnd(text, k) ==
    IF k <= Len(text) /\ text[k] # Newline THEN LineEnd(text, k + 1) ELSE k

\* (\s*\/\/.*) tried at k: the position after the match, 0 when it does not
\* match
CommentEnd(text, k) ==
    LET w == WhiteEnd(text, k)
    IN  IF w + 1 <= Len(text) /\ text[w] = "/" /\ text[w + 1] = "/"
        THEN LineEnd(text, w + 2) ELSE 0

\* re.sub of the two alternatives from position k on: a string is kept, a
\* comment is replaced by "", any other character is copied
RECURSIVE RemoveComments(_, _)
RemoveComments(text, k) ==
    IF k > Len(text) THEN <<>>
    ELSE LET close == IF text[k] = Quote THEN StringEnd(text, k + 1) ELSE 0
             after == CommentEnd(text, k)
         IN  IF close # 0
             THEN SubSeq(text, k, close) \o RemoveComments(text, close + 1)
             ELSE IF after # 0 THEN RemoveComments(text, after)
             ELSE << text[k] >> \o RemoveComments(text, k + 1)

\* text.index("{") from position k on, 0 for ValueError
RECURSIVE IndexOfBrace(_, _)
IndexOfBrace(text, k) ==
    IF k > Len(text) THEN 0
    ELSE IF text[k] = "{" THEN k
    ELSE IndexOfBrace(text, k + 1)

\* char == '"' and text[i - 1] != "\\"
TogglesString(text, i) == text[i] = Quote /\ text[i - 1] # Backslash

\* the brace-counting loop from position i on
RECURSIVE CountBraces(_, _, _, _, _)
CountBraces(text, start_index, i, brace_count, in_string) ==
    IF i > Len(text) THEN [found |-> FALSE, out |-> <<>>]
    ELSE IF TogglesString(text, i)
    THEN CountBraces(text, start_index, i + 1, brace_count, ~in_string)
    ELSE IF in_string
    THEN CountBraces(text, start_index, i + 1, brace_count, in_string)
    ELSE LET n == IF text[i] = "{" THEN brace_count + 1
                  ELSE IF text[i] = "}" THEN brace_count - 1
                  ELSE brace_count
         IN  IF n = 0 THEN [found |-> TRUE, out |-> SubSeq(text, start_index, i)]
             ELSE CountBraces(text, start_index, i + 1, n, in_string)

\* JsonParser.extract(text); found is FALSE when it returns None
extract(text) ==
    LET clean == RemoveComments(text, 1)
        start_index == IndexOfBrace(clean, 1)
    IN  IF start_index = 0 THEN [found |-> FALSE, out |-> <<>>]
        ELSE CountBraces(clean, start_index, start_index + 1, 1, FALSE)

JsonTexts == UNION { [1..k -> JsonChars] : k \in 0..MaxJson }

InitParser ==
    /\ dirs = {}
    /\ files = <<>>
    /\ fs0 = [dirs |-> {}, files |-> <<>>]
    /\ Quiescent
    /\ LlmUnused
    /\ \E text \in JsonTexts :
          pf = [fn |-> "extract", done |-> FALSE, text |-> text, found |-> FALSE,
                out |-> <<>>]

Extract ==
    /\ pf.fn = "extract"
    /\ ~pf.done
    /\ LET r == extract(pf.text)
       IN  pf' = [pf EXCEPT !.done = TRUE, !.found = r.found, !.out = r.out]
    /\ FsFrame
    /\ DownloaderFrame
    /\ LlmFrame

NextParser == Extract

SpecParser == InitParser /\ [][NextParser]_vars

\* the position of the } that closes the { before position i, 0 when there
\* is none: a quote that no backslash precedes opens a string, inside a
\* string a backslash escapes the character after it, and braces inside a
\* string are not counted
RECURSIVE ClosingBrace(_, _, _, _)
ClosingBrace(text, i, depth, in_string) ==
    IF i > Len(text) THEN 0
    ELSE IF in_string
    THEN IF text[i] = Backslash THEN ClosingBrace(text, i + 2, depth, TRUE)
         ELSE ClosingBrace(text, i + 1, depth, text[i] # Quote)
    ELSE IF text[i] = Quote /\ text[i - 1] # Backslash
    THEN ClosingBrace(text, i + 1, depth, TRUE)
    ELSE IF text[i] = "{" THEN ClosingBrace(text, i + 1, depth + 1, FALSE)
    ELSE IF text[i] = "}"
    THEN IF depth = 1 THEN i ELSE ClosingBrace(text, i + 1, depth - 1, FALSE)
    ELSE ClosingBrace(text, i + 1, depth, FALSE)

\* C30: extract returns None when the text without its comments has no {
\* or its first { is never closed, and otherwise the substring from that {
\* to the } that closes it, braces inside double-quoted strings not being
\* counted, also when the string ends in an escaped backslash.
C30_ExtractsBalancedObject ==
    (pf.fn = "extract" /\ pf.done) =>
        LET clean == RemoveComments(pf.text, 1)
            first == IndexOfBrace(clean, 1)
            last == IF first = 0 THEN 0 ELSE ClosingBrace(clean, first + 1, 1, FALSE)
        IN  IF last = 0 THEN ~pf.found
            ELSE pf.found /\ pf.out = SubSeq(clean, first, last)

====
